---- MODULE Spec2Model ----
(***************************************************************************)
(* A model of src/codegraphcontext/dart.py: the Dart entity extractor     *)
(* (DartTreeSitterParser) and the symbol pre-scan (pre_scan_dart).         *)
(*                                                                         *)
(* A source file is a sequence of top-level declarations; each declaration *)
(* is one of a fixed set of syntax-tree fragments (ShapeOf) laid out one   *)
(* after the other, so byte offsets and rows follow from the layout.       *)
(* A node is <<d, l>>: the l-th node (in document order) of declaration d; *)
(* Root is the program node.  Text is a sequence of chunks, "" is <<>>.    *)
(* Python's None and the empty string are both falsy in every test the     *)
(* code makes on names, and both are written <<>> here.                    *)
(***************************************************************************)
EXTENDS Integers, Sequences, FiniteSets, TLC

VARIABLES
    file,         \* the file on disk, as the syntax tree the engine builds from it
    pc,           \* the parser instance: "new", "ready", "returned"
    queries,      \* self.queries: category -> TRUE (a compiled Query) / FALSE (None)
    disabled,     \* categories whose compile failed at construction (history)
    buckets,      \* the buckets dict of the last _find_functions, in insertion order
    result,       \* the record returned by the last parse call
    files,        \* pre_scan_dart: the file list
    idx,          \* pre_scan_dart: index of the file being processed
    caps,         \* pre_scan_dart: the name captures of the current file
    cpos,         \* pre_scan_dart: next capture to process
    imports_map,  \* pre_scan_dart: symbol -> list of paths
    failed,       \* pre_scan_dart: indices of the files whose processing failed
    spc           \* pre_scan_dart: "start", "open", "nodes", "done"

vars == <<file, pc, queries, disabled, buckets, result,
          files, idx, caps, cpos, imports_map, failed, spc>>

parserVars == <<file, pc, queries, disabled, buckets, result>>
scanVars == <<files, idx, caps, cpos, imports_map, failed, spc>>

\* Bounds of the model.
MaxDecls == 2
MaxFiles == 3

None == <<>>
Root == <<0, 0>>

Max(S) == CHOOSE x \in S : \A y \in S : y <= x

\* F applied to the value of x, x being evaluated once.
Bind(x, F(_)) == CHOOSE r \in {F(v) : v \in {x}} : TRUE

--------------------------------------------------------------------------
(* The syntax trees the tree-sitter engine hands to the code.             *)

Nd(t, p, b, e, r, s, x, f) ==
    [type |-> t, parent |-> p, sb |-> b, eb |-> e, sr |-> r, er |-> s,
     text |-> x, field |-> f]

\* void f(x) {\n  if (a && b) {}\n}
TopFn ==
    << Nd("function_signature", 0, 0, 9, 0, 0, <<>>, ""),
       Nd("void_type", 1, 0, 4, 0, 0, <<>>, ""),
       Nd("identifier", 1, 5, 6, 0, 0, <<"f">>, "name"),
       Nd("formal_parameter_list", 1, 6, 9, 0, 0, <<>>, ""),
       Nd("(", 4, 6, 7, 0, 0, <<>>, ""),
       Nd("formal_parameter", 4, 7, 8, 0, 0, <<>>, ""),
       Nd("identifier", 6, 7, 8, 0, 0, <<"x">>, "name"),
       Nd(")", 4, 8, 9, 0, 0, <<>>, ""),
       Nd("function_body", 0, 10, 30, 0, 2, <<>>, ""),
       Nd("block", 9, 10, 30, 0, 2, <<>>, ""),
       Nd("if_statement", 10, 14, 28, 1, 1, <<>>, ""),
       Nd("logical_and_expression", 11, 18, 24, 1, 1, <<>>, "") >>

\* g([y = a ? 1 : 2]) {}
TopFnCond ==
    << Nd("function_signature", 0, 0, 20, 0, 0, <<>>, ""),
       Nd("identifier", 1, 0, 1, 0, 0, <<"g">>, "name"),
       Nd("formal_parameter_list", 1, 1, 20, 0, 0, <<>>, ""),
       Nd("simple_formal_parameter", 3, 2, 18, 0, 0, <<>>, ""),
       Nd("identifier", 4, 2, 3, 0, 0, <<"y">>, "name"),
       Nd("conditional_expression", 4, 6, 18, 0, 0, <<>>, ""),
       Nd("function_body", 0, 21, 23, 0, 0, <<>>, "") >>

\* external int get\n  v;
GetterNoBody ==
    << Nd("getter_signature", 0, 0, 18, 0, 1, <<>>, ""),
       Nd("type_identifier", 1, 0, 3, 0, 0, <<>>, ""),
       Nd("identifier", 1, 16, 17, 1, 1, <<"v">>, "name") >>

\* class C {\n  void m() {\n    while (c) {}\n  }\n  int n();\n}
ClassMethod ==
    << Nd("class_definition", 0, 0, 60, 0, 5, <<>>, ""),
       Nd("identifier", 1, 6, 7, 0, 0, <<"C">>, "name"),
       Nd("class_body", 1, 8, 60, 0, 5, <<>>, ""),
       Nd("method_signature", 3, 12, 20, 1, 1, <<>>, ""),
       Nd("function_signature", 4, 12, 20, 1, 1, <<>>, ""),
       Nd("void_type", 5, 12, 16, 1, 1, <<>>, ""),
       Nd("identifier", 5, 17, 18, 1, 1, <<"m">>, "name"),
       Nd("formal_parameter_list", 5, 18, 20, 1, 1, <<>>, ""),
       Nd("function_body", 3, 21, 45, 1, 3, <<>>, ""),
       Nd("while_statement", 9, 25, 40, 2, 2, <<>>, ""),
       Nd("declaration", 3, 48, 56, 4, 4, <<>>, ""),
       Nd("function_signature", 11, 48, 55, 4, 4, <<>>, ""),
       Nd("type_identifier", 12, 48, 51, 4, 4, <<>>, ""),
       Nd("identifier", 12, 52, 53, 4, 4, <<"n">>, "name"),
       Nd("formal_parameter_list", 12, 53, 55, 4, 4, <<>>, "") >>

\* class T {\n  T.named(x)\n    : a = b ? 1 : 2;\n}
Ctor ==
    << Nd("class_definition", 0, 0, 44, 0, 3, <<>>, ""),
       Nd("identifier", 1, 6, 7, 0, 0, <<"T">>, "name"),
       Nd("class_body", 1, 8, 44, 0, 3, <<>>, ""),
       Nd("declaration", 3, 12, 40, 1, 2, <<>>, ""),
       Nd("constructor_signature", 4, 12, 22, 1, 1, <<>>, ""),
       Nd("identifier", 5, 12, 13, 1, 1, <<"T">>, "name"),
       Nd(".", 5, 13, 14, 1, 1, <<".">>, ""),
       Nd("identifier", 5, 14, 19, 1, 1, <<"named">>, "name"),
       Nd("formal_parameter_list", 5, 19, 22, 1, 1, <<>>, ""),
       Nd("simple_formal_parameter", 9, 20, 21, 1, 1, <<>>, ""),
       Nd("identifier", 10, 20, 21, 1, 1, <<"x">>, "name"),
       Nd("initializers", 4, 27, 39, 2, 2, <<>>, ""),
       Nd("conditional_expression", 12, 31, 39, 2, 2, <<>>, "") >>

\* class U {\n  U.of(int x, z, this.y);\n}   -- a typed, a bare and a field parameter
CtorTyped ==
    << Nd("class_definition", 0, 0, 37, 0, 2, <<>>, ""),
       Nd("identifier", 1, 6, 7, 0, 0, <<"U">>, "name"),
       Nd("class_body", 1, 8, 37, 0, 2, <<>>, ""),
       Nd("declaration", 3, 12, 35, 1, 1, <<>>, ""),
       Nd("constructor_signature", 4, 12, 34, 1, 1, <<>>, ""),
       Nd("identifier", 5, 12, 13, 1, 1, <<"U">>, "name"),
       Nd(".", 5, 13, 14, 1, 1, <<".">>, ""),
       Nd("identifier", 5, 14, 16, 1, 1, <<"of">>, "name"),
       Nd("formal_parameter_list", 5, 16, 34, 1, 1, <<>>, ""),
       Nd("(", 9, 16, 17, 1, 1, <<>>, ""),
       Nd("normal_formal_parameter", 9, 17, 22, 1, 1, <<>>, ""),
       Nd("type_identifier", 11, 17, 20, 1, 1, <<>>, ""),
       Nd("identifier", 11, 21, 22, 1, 1, <<"x">>, "name"),
       Nd(",", 9, 22, 23, 1, 1, <<>>, ""),
       Nd("simple_formal_parameter", 9, 24, 25, 1, 1, <<>>, ""),
       Nd("identifier", 15, 24, 25, 1, 1, <<"z">>, "name"),
       Nd(",", 9, 25, 26, 1, 1, <<>>, ""),
       Nd("normal_formal_parameter", 9, 27, 33, 1, 1, <<>>, ""),
       Nd("constructor_param", 18, 27, 33, 1, 1, <<>>, ""),
       Nd(")", 9, 33, 34, 1, 1, <<>>, "") >>

\* void (){}   -- the name is a zero-width MISSING identifier
UnnamedFn ==
    << Nd("function_signature", 0, 0, 7, 0, 0, <<>>, ""),
       Nd("void_type", 1, 0, 4, 0, 0, <<>>, ""),
       Nd("identifier", 1, 5, 5, 0, 0, <<>>, "name"),
       Nd("formal_parameter_list", 1, 5, 7, 0, 0, <<>>, ""),
       Nd("function_body", 0, 8, 10, 0, 0, <<>>, "") >>

\* class K {\n  final h = () {\n    void q() {}\n  };\n}
FieldLambda ==
    << Nd("class_definition", 0, 0, 50, 0, 4, <<>>, ""),
       Nd("identifier", 1, 6, 7, 0, 0, <<"K">>, "name"),
       Nd("class_body", 1, 8, 50, 0, 4, <<>>, ""),
       Nd("declaration", 3, 12, 46, 1, 3, <<>>, ""),
       Nd("initialized_identifier", 4, 18, 46, 1, 3, <<>>, ""),
       Nd("function_expression", 5, 22, 46, 1, 3, <<>>, ""),
       Nd("lambda_expression", 6, 30, 41, 2, 2, <<>>, ""),
       Nd("function_signature", 7, 30, 38, 2, 2, <<>>, ""),
       Nd("void_type", 8, 30, 34, 2, 2, <<>>, ""),
       Nd("identifier", 8, 35, 36, 2, 2, <<"q">>, "name"),
       Nd("formal_parameter_list", 8, 36, 38, 2, 2, <<>>, ""),
       Nd("function_body", 7, 39, 41, 2, 2, <<>>, "") >>

\* mixin M {}   -- the identifier is a positional child, not a field
Mixin ==
    << Nd("mixin_declaration", 0, 0, 10, 0, 0, <<>>, ""),
       Nd("identifier", 1, 6, 7, 0, 0, <<"M">>, ""),
       Nd("class_body", 1, 8, 10, 0, 0, <<>>, "") >>

\* enum E {\n  a }
Enum ==
    << Nd("enum_declaration", 0, 0, 14, 0, 1, <<>>, ""),
       Nd("identifier", 1, 5, 6, 0, 0, <<"E">>, "name"),
       Nd("enum_body", 1, 7, 14, 0, 1, <<>>, "") >>

\* extension on int {}
ExtAnon ==
    << Nd("extension_declaration", 0, 0, 19, 0, 0, <<>>, ""),
       Nd("type_identifier", 1, 13, 16, 0, 0, <<>>, ""),
       Nd("extension_body", 1, 17, 19, 0, 0, <<>>, "") >>

\* class A = B with D;   -- the name sits inside mixin_application_class
ClassAlias ==
    << Nd("class_definition", 0, 0, 20, 0, 0, <<>>, ""),
       Nd("mixin_application_class", 1, 6, 20, 0, 0, <<>>, ""),
       Nd("identifier", 2, 6, 7, 0, 0, <<"A">>, ""),
       Nd("mixin_application", 2, 10, 19, 0, 0, <<>>, "") >>

\* import\n  'a.dart';
ImportMulti ==
    << Nd("import_or_export", 0, 0, 18, 0, 1, <<>>, ""),
       Nd("library_import", 1, 0, 18, 0, 1, <<>>, ""),
       Nd("import_specification", 2, 0, 18, 0, 1, <<>>, ""),
       Nd("configurable_uri", 3, 9, 17, 1, 1, <<>>, ""),
       Nd("uri", 4, 9, 17, 1, 1, <<>>, ""),
       Nd("string_literal", 5, 9, 17, 1, 1, <<"'", "a.dart", "'">>, "") >>

\* export "e.dart";
Export ==
    << Nd("import_or_export", 0, 0, 16, 0, 0, <<>>, ""),
       Nd("library_export", 1, 0, 16, 0, 0, <<>>, ""),
       Nd("configurable_uri", 2, 7, 15, 0, 0, <<>>, ""),
       Nd("uri", 3, 7, 15, 0, 0, <<>>, ""),
       Nd("string_literal", 4, 7, 15, 0, 0, <<"\"", "e.dart", "\"">>, "") >>

\* part\n  'p.dart';
Part ==
    << Nd("part_directive", 0, 0, 16, 0, 1, <<>>, ""),
       Nd("uri", 1, 7, 15, 1, 1, <<>>, ""),
       Nd("string_literal", 2, 7, 15, 1, 1, <<"'", "p.dart", "'">>, "") >>

Shapes ==
    { "TopFn", "TopFnCond", "GetterNoBody", "ClassMethod", "Ctor", "CtorTyped",
      "UnnamedFn",
      "FieldLambda", "Mixin", "Enum", "ExtAnon", "ClassAlias",
      "ImportMulti", "Export", "Part" }

ShapeOf(k) ==
    CASE k = "TopFn" -> TopFn
      [] k = "TopFnCond" -> TopFnCond
      [] k = "GetterNoBody" -> GetterNoBody
      [] k = "ClassMethod" -> ClassMethod
      [] k = "Ctor" -> Ctor
      [] k = "CtorTyped" -> CtorTyped
      [] k = "UnnamedFn" -> UnnamedFn
      [] k = "FieldLambda" -> FieldLambda
      [] k = "Mixin" -> Mixin
      [] k = "Enum" -> Enum
      [] k = "ExtAnon" -> ExtAnon
      [] k = "ClassAlias" -> ClassAlias
      [] k = "ImportMulti" -> ImportMulti
      [] k = "Export" -> Export
      [] k = "Part" -> Part

\* The shapes and their extents, tabulated once.
ShapeTable == [k \in Shapes |-> ShapeOf(k)]
ShapeBytes == [k \in Shapes |-> Max({ShapeOf(k)[i].eb : i \in 1..Len(ShapeOf(k))})]
ShapeRows == [k \in Shapes |-> Max({ShapeOf(k)[i].er : i \in 1..Len(ShapeOf(k))}) + 1]

\* Every declaration starts on a new line, right after the previous one.
RECURSIVE ByteBase(_, _)
ByteBase(t, d) == IF d <= 1 THEN 0 ELSE ByteBase(t, d - 1) + ShapeBytes[t[d - 1]] + 1

RECURSIVE RowBase(_, _)
RowBase(t, d) == IF d <= 1 THEN 0 ELSE RowBase(t, d - 1) + ShapeRows[t[d - 1]]

TotalBytes(t) == ByteBase(t, Len(t) + 1)
TotalRows(t) == RowBase(t, Len(t) + 1)

RecAt(ds, n) == ShapeTable[ds[n[1]]][n[2]]

NodesAt(ds) == UNION {{<<d, l>> : l \in 1..Len(ShapeTable[ds[d]])} : d \in 1..Len(ds)}

TypeAt(ds, n) == IF n = Root THEN "program" ELSE RecAt(ds, n).type
ParentAt(ds, n) ==
    IF n = Root THEN None
    ELSE IF RecAt(ds, n).parent = 0 THEN Root ELSE <<n[1], RecAt(ds, n).parent>>
StartByteAt(ds, n) == IF n = Root THEN 0 ELSE ByteBase(ds, n[1]) + RecAt(ds, n).sb
EndByteAt(ds, n) == IF n = Root THEN TotalBytes(ds) ELSE ByteBase(ds, n[1]) + RecAt(ds, n).eb
StartRowAt(ds, n) == IF n = Root THEN 0 ELSE RowBase(ds, n[1]) + RecAt(ds, n).sr
EndRowAt(ds, n) == IF n = Root THEN TotalRows(ds) ELSE RowBase(ds, n[1]) + RecAt(ds, n).er
TextAt(ds, n) == IF n = Root THEN <<>> ELSE RecAt(ds, n).text
FieldAt(ds, n) == IF n = Root THEN "" ELSE RecAt(ds, n).field
IsNamedAt(ds, n) == TypeAt(ds, n) \notin {".", "(", ")", ",", ";"}

\* The local children of local node p of shape k, in document order.
ChildLocals ==
    [k \in Shapes |->
        [p \in 0..Len(ShapeOf(k)) |->
            SelectSeq([i \in 1..Len(ShapeOf(k)) |-> i], LAMBDA i : ShapeOf(k)[i].parent = p)]]

RECURSIVE RootChildrenAt(_, _)
RootChildrenAt(ds, d) ==
    IF d > Len(ds) THEN <<>>
    ELSE [j \in 1..Len(ChildLocals[ds[d]][0]) |-> <<d, ChildLocals[ds[d]][0][j]>>]
         \o RootChildrenAt(ds, d + 1)

ChildrenAt(ds, n) ==
    IF n = Root THEN RootChildrenAt(ds, 1)
    ELSE [j \in 1..Len(ChildLocals[ds[n[1]]][n[2]]) |-> <<n[1], ChildLocals[ds[n[1]]][n[2]][j]>>]

IndexIn(s, x) == CHOOSE i \in 1..Len(s) : s[i] = x

NextNamedSiblingAt(ds, n) ==
    IF n = Root THEN None
    ELSE LET sibs == ChildrenAt(ds, ParentAt(ds, n))
             me == IndexIn(sibs, n)
             later == SelectSeq(SubSeq(sibs, me + 1, Len(sibs)), LAMBDA c : IsNamedAt(ds, c))
         IN IF later = <<>> THEN None ELSE later[1]

\* The tree the engine builds for a file of declarations ds, node by node.
Tree(ds) ==
    [ decls |-> ds,
      nodes |-> NodesAt(ds),
      type |-> [n \in NodesAt(ds) \cup {Root} |-> TypeAt(ds, n)],
      parent |-> [n \in NodesAt(ds) \cup {Root} |-> ParentAt(ds, n)],
      start_byte |-> [n \in NodesAt(ds) \cup {Root} |-> StartByteAt(ds, n)],
      end_byte |-> [n \in NodesAt(ds) \cup {Root} |-> EndByteAt(ds, n)],
      start_row |-> [n \in NodesAt(ds) \cup {Root} |-> StartRowAt(ds, n)],
      end_row |-> [n \in NodesAt(ds) \cup {Root} |-> EndRowAt(ds, n)],
      text |-> [n \in NodesAt(ds) \cup {Root} |-> TextAt(ds, n)],
      field |-> [n \in NodesAt(ds) \cup {Root} |-> FieldAt(ds, n)],
      children |-> [n \in NodesAt(ds) \cup {Root} |-> ChildrenAt(ds, n)],
      next_named_sibling |-> [n \in NodesAt(ds) \cup {Root} |-> NextNamedSiblingAt(ds, n)] ]

\* What the code reads of a node n of tree t.
AllNodes(t) == t.nodes
NodeType(t, n) == t.type[n]
Parent(t, n) == t.parent[n]
StartByte(t, n) == t.start_byte[n]
EndByte(t, n) == t.end_byte[n]
StartRow(t, n) == t.start_row[n]
EndRow(t, n) == t.end_row[n]
Text(t, n) == t.text[n]
FieldOf(t, n) == t.field[n]
Children(t, n) == t.children[n]
NextNamedSibling(t, n) == t.next_named_sibling[n]

ChildByFieldName(t, n, f) ==
    Bind(SelectSeq(Children(t, n), LAMBDA c : FieldOf(t, c) = f),
         LAMBDA named : IF named = <<>> THEN None ELSE named[1])

--------------------------------------------------------------------------
(* The query engine: which nodes each pattern of DART_QUERIES captures.   *)

Categories == {"functions", "classes", "imports", "calls", "variables", "comments"}
\* The categories of DART_QUERIES that have a pattern; calls and variables are None.
Patterned == {"functions", "classes", "imports", "comments"}

Cap(n, l) == [node |-> n, label |-> l]

ChildSet(t, n) == {Children(t, n)[j] : j \in 1..Len(Children(t, n))}
IdentifierChildren(t, n) == {c \in ChildSet(t, n) : NodeType(t, c) = "identifier"}
NameFieldIdentifiers(t, n) ==
    {c \in IdentifierChildren(t, n) : FieldOf(t, c) = "name"}
ParamListChildren(t, n) ==
    {c \in ChildSet(t, n) : NodeType(t, c) = "formal_parameter_list"}

FunctionsPattern(t) ==
    UNION { IF NodeType(t, n) \in {"function_signature", "setter_signature",
                                   "constructor_signature", "getter_signature"}
               /\ NameFieldIdentifiers(t, n) # {}
            THEN {Cap(n, "function_node")}
                 \cup {Cap(c, "name") : c \in NameFieldIdentifiers(t, n)}
                 \cup (IF NodeType(t, n) = "getter_signature" THEN {}
                       ELSE {Cap(c, "params") : c \in ParamListChildren(t, n)})
            ELSE {} : n \in AllNodes(t) }

ClassesPattern(t) ==
    UNION { CASE NodeType(t, n) \in {"class_definition", "enum_declaration"}
                 /\ NameFieldIdentifiers(t, n) # {} ->
                   {Cap(n, "class")} \cup {Cap(c, "name") : c \in NameFieldIdentifiers(t, n)}
              [] NodeType(t, n) = "mixin_declaration" /\ IdentifierChildren(t, n) # {} ->
                   {Cap(n, "class")} \cup {Cap(c, "name") : c \in IdentifierChildren(t, n)}
              [] NodeType(t, n) = "extension_declaration" ->
                   {Cap(n, "class")} \cup {Cap(c, "name") : c \in NameFieldIdentifiers(t, n)}
              [] OTHER -> {} : n \in AllNodes(t) }

\* The chain of node types from n upwards, n's own type first.
RECURSIVE TypePath(_, _)
TypePath(t, n) == IF n = None \/ n = Root THEN <<>> ELSE <<NodeType(t, n)>> \o TypePath(t, Parent(t, n))

HasPrefix(s, p) == Len(s) >= Len(p) /\ SubSeq(s, 1, Len(p)) = p

ImportsPattern(t) ==
    { Cap(n, "path") : n \in
        { m \in AllNodes(t) :
            \/ HasPrefix(TypePath(t, m), <<"string_literal", "uri", "configurable_uri",
                          "import_specification", "library_import", "import_or_export">>)
            \/ HasPrefix(TypePath(t, m), <<"string_literal", "uri", "configurable_uri",
                          "library_export", "import_or_export">>)
            \/ HasPrefix(TypePath(t, m), <<"string_literal", "uri", "part_directive">>)
            \/ HasPrefix(TypePath(t, m), <<"string_literal", "uri", "part_of_directive">>) } }

CommentsPattern(t) == {Cap(n, "comment") : n \in {m \in AllNodes(t) : NodeType(t, m) = "comment"}}

PatternCaptures(name, t) ==
    CASE name = "functions" -> FunctionsPattern(t)
      [] name = "classes" -> ClassesPattern(t)
      [] name = "imports" -> ImportsPattern(t)
      [] name = "comments" -> CommentsPattern(t)
      [] OTHER -> {}

\* cursor.captures returns label -> nodes; the labels come in the order the engine
\* first meets them (the outer node before its parts), the nodes in document order.
LabelRank(l) == IF l \in {"function_node", "class", "path", "comment"} THEN 1
                ELSE IF l = "name" THEN 2 ELSE 3

\* results.sort(key=start_byte) is stable: ties keep the label-major order.
CapBefore(t, a, b) ==
    LET ka == <<StartByte(t, a.node), LabelRank(a.label), a.node[1], a.node[2], 0>>
        kb == <<StartByte(t, b.node), LabelRank(b.label), b.node[1], b.node[2], 0>>
    IN \E i \in 1..5 : /\ \A j \in 1..(i - 1) : ka[j] = kb[j]
                        /\ (i = 5 \/ ka[i] < kb[i])

First(t, S) == CHOOSE x \in S : \A y \in S : CapBefore(t, x, y)

RECURSIVE SortCaptures(_, _)
SortCaptures(t, S) ==
    Bind(S, LAMBDA V :
        IF V = {} THEN <<>>
        ELSE Bind(First(t, V), LAMBDA m : <<m>> \o SortCaptures(t, V \ {m})))

QueryAvailableAlways(q, name) == TRUE

QueryAvailable(q, name) == q[name]

Captures(q, name, t) ==
    IF ~QueryAvailable(q, name) THEN <<>> ELSE SortCaptures(t, PatternCaptures(name, t))

--------------------------------------------------------------------------
(* Helpers of DartTreeSitterParser.                                       *)

ComplexityNodes ==
    { "if_statement", "for_statement", "while_statement", "do_statement",
      "switch_statement", "case_clause", "default_clause", "conditional_expression",
      "logical_or_expression", "logical_and_expression", "binary_expression",
      "try_statement", "catch_clause" }

RECURSIVE SumSeq(_)
SumSeq(s) == IF s = <<>> THEN 0 ELSE s[1] + SumSeq(Tail(s))

RECURSIVE Walk(_, _)
Walk(t, n) ==
    (IF NodeType(t, n) \in ComplexityNodes THEN 1 ELSE 0)
    + SumSeq([j \in 1..Len(Children(t, n)) |-> Walk(t, Children(t, n)[j])])

CalcComplexityFromZero(t, n) == Walk(t, n)

CalcComplexity(t, n) == 1 + Walk(t, n)

RECURSIVE LeadingRun(_, _)
LeadingRun(t, cs) ==
    IF cs = <<>> THEN <<>>
    ELSE IF NodeType(t, cs[1]) = "identifier" THEN <<Text(t, cs[1])>> \o LeadingRun(t, Tail(cs))
    ELSE IF NodeType(t, cs[1]) = "." THEN <<<<".">>>> \o LeadingRun(t, Tail(cs))
    ELSE <<>>

RECURSIVE Join(_)
Join(parts) == IF parts = <<>> THEN <<>> ELSE parts[1] \o Join(Tail(parts))

ExtractFunctionName(t, n) ==
    IF n = None THEN None
    ELSE IF NodeType(t, n) \in {"function_signature", "getter_signature", "setter_signature"}
    THEN IF ChildByFieldName(t, n, "name") # None
         THEN Text(t, ChildByFieldName(t, n, "name")) ELSE None
    ELSE IF NodeType(t, n) = "constructor_signature"
    THEN IF LeadingRun(t, Children(t, n)) # <<>>
         THEN Join(LeadingRun(t, Children(t, n))) ELSE None
    ELSE None

--------------------------------------------------------------------------
(* _find_functions.                                                       *)

SignatureTypes ==
    {"function_signature", "getter_signature", "setter_signature", "constructor_signature"}

WrapperTypes ==
    {"method_signature", "setter_signature", "getter_signature",
     "constructor_signature", "declaration"}

RECURSIVE FindSignature(_, _)
FindSignature(t, n) ==
    IF n = None THEN None
    ELSE IF NodeType(t, n) \in SignatureTypes THEN n
    ELSE FindSignature(t, Parent(t, n))

\* obj is the identity of the Python object holding the signature node: the engine
\* and .parent make a new object each time, so every capture has its own.
BucketKeyByIdentity(t, sig, obj) == <<obj, obj>>

BucketKey(t, sig, obj) == <<StartByte(t, sig), EndByte(t, sig)>>

HasKey(bs, key) == \E j \in 1..Len(bs) : bs[j].key = key
KeyIndex(bs, key) == CHOOSE j \in 1..Len(bs) : bs[j].key = key

\* buckets.setdefault(key, {...}); the dict keeps insertion order.
Bucket(bs, key, sig) ==
    IF HasKey(bs, key) THEN bs
    ELSE Append(bs, [key |-> key, signature |-> sig, name |-> None, params |-> None])

\* One pass of "for node, cap in captures"; i is the capture's place in the list.
BucketStep(t, node, cap, i, bs) ==
    Bind(FindSignature(t, node), LAMBDA sig :
        IF cap \notin {"function_node", "name", "params"} \/ sig = None THEN bs
        ELSE Bind(Bucket(bs, BucketKey(t, sig, i), sig), LAMBDA bs1 :
                Bind(KeyIndex(bs1, BucketKey(t, sig, i)), LAMBDA j :
                    IF cap = "function_node" THEN bs1
                    ELSE IF cap = "name" THEN [bs1 EXCEPT ![j].name = Text(t, node)]
                    ELSE [bs1 EXCEPT ![j].params = node])))

RECURSIVE BucketLoop(_, _, _, _)
BucketLoop(t, cs, i, bs) ==
    IF i > Len(cs) THEN bs
    ELSE Bind(BucketStep(t, cs[i].node, cs[i].label, i, bs),
              LAMBDA next : BucketLoop(t, cs, i + 1, next))

Buckets(t, cs) == Bind(cs, LAMBDA c : BucketLoop(t, c, 1, <<>>))

FunctionName(t, info) ==
    LET fn_node == info.signature
        derived_name == ExtractFunctionName(t, fn_node)
    IN IF info.name = <<>> THEN derived_name
       ELSE IF NodeType(t, fn_node) = "constructor_signature" /\ derived_name # <<>>
       THEN derived_name
       ELSE info.name

KeepsUnnamed(name) == TRUE

\* "if not name: continue"
Keeps(name) == name # <<>>

NameOfParameter(t, ch) ==
    IF ChildByFieldName(t, ch, "name") # None
    THEN <<Text(t, ChildByFieldName(t, ch, "name"))>> ELSE <<>>

RECURSIVE InnerParams(_, _)
InnerParams(t, cs) ==
    IF cs = <<>> THEN <<>>
    ELSE (IF NodeType(t, cs[1]) \in {"normal_formal_parameter", "simple_formal_parameter"}
          THEN NameOfParameter(t, cs[1]) ELSE <<>>)
         \o InnerParams(t, Tail(cs))

RECURSIVE OuterParams(_, _)
OuterParams(t, cs) ==
    IF cs = <<>> THEN <<>>
    ELSE (IF NodeType(t, cs[1]) = "formal_parameter_list"
          THEN InnerParams(t, Children(t, cs[1]))
          ELSE IF NodeType(t, cs[1]) = "simple_formal_parameter"
          THEN NameOfParameter(t, cs[1]) ELSE <<>>)
         \o OuterParams(t, Tail(cs))

ParamNames(t, p) == IF p = None THEN <<>> ELSE OuterParams(t, Children(t, p))

ContainerIsSignature(t, fn_node) == fn_node

Container(t, fn_node) ==
    LET parent == Parent(t, fn_node)
    IN IF parent # None /\ NodeType(t, parent) \in WrapperTypes THEN parent ELSE fn_node

IsBody(t, candidate) == candidate # None /\ NodeType(t, candidate) = "function_body"

BodyNode(t, container, fn_node) ==
    IF IsBody(t, NextNamedSibling(t, container)) THEN NextNamedSibling(t, container)
    ELSE IF IsBody(t, NextNamedSibling(t, fn_node)) THEN NextNamedSibling(t, fn_node)
    ELSE None

EndNode(t, fn_node) ==
    IF BodyNode(t, Container(t, fn_node), fn_node) # None
    THEN BodyNode(t, Container(t, fn_node), fn_node)
    ELSE Container(t, fn_node)

LineOfZeroBased(row) == row

\* start_point[0] + 1, end_point[0] + 1
LineOf(row) == row + 1

FunctionEntity(t, info) ==
    [ name |-> FunctionName(t, info),
      line_number |-> LineOf(StartRow(t, Container(t, info.signature))),
      end_line |-> LineOf(EndRow(t, EndNode(t, info.signature))),
      args |-> ParamNames(t, info.params),
      cyclomatic_complexity |-> CalcComplexity(t, EndNode(t, info.signature)) ]

RECURSIVE EntitiesOf(_, _)
EntitiesOf(t, bs) ==
    IF bs = <<>> THEN <<>>
    ELSE (IF Keeps(FunctionName(t, bs[1])) THEN <<FunctionEntity(t, bs[1])>> ELSE <<>>)
         \o EntitiesOf(t, Tail(bs))

\* The buckets at the end of the capture loop; none when there are no captures.
FunctionBuckets(q, t) == Buckets(t, Captures(q, "functions", t))

FindFunctions(q, t) == Bind(FunctionBuckets(q, t), LAMBDA bs : EntitiesOf(t, bs))

--------------------------------------------------------------------------
(* _find_classes, _find_imports, _find_calls, _find_variables.            *)

FirstIdentifierChild(t, n) ==
    Bind(SelectSeq(Children(t, n), LAMBDA c : NodeType(t, c) = "identifier"),
         LAMBDA ids : IF ids = <<>> THEN None ELSE ids[1])

ClassName(t, node) ==
    IF ChildByFieldName(t, node, "name") # None
    THEN Text(t, ChildByFieldName(t, node, "name"))
    ELSE IF FirstIdentifierChild(t, node) # None
    THEN Text(t, FirstIdentifierChild(t, node))
    ELSE <<"extension">>

ClassEntity(t, node) ==
    [ name |-> ClassName(t, node),
      line_number |-> LineOf(StartRow(t, node)),
      end_line |-> LineOf(EndRow(t, node)) ]

RECURSIVE ClassLoop(_, _)
ClassLoop(t, cs) ==
    IF cs = <<>> THEN <<>>
    ELSE (IF cs[1].label = "class" THEN <<ClassEntity(t, cs[1].node)>> ELSE <<>>)
         \o ClassLoop(t, Tail(cs))

FindClasses(q, t) == Bind(Captures(q, "classes", t), LAMBDA cs : ClassLoop(t, cs))

QuoteChars == {"\"", "'"}

\* str.strip("\"'"): drops every leading and every trailing quote character.
RECURSIVE LStrip(_)
LStrip(x) == IF x # <<>> /\ x[1] \in QuoteChars THEN LStrip(Tail(x)) ELSE x

RECURSIVE RStrip(_)
RStrip(x) ==
    IF x # <<>> /\ x[Len(x)] \in QuoteChars THEN RStrip(SubSeq(x, 1, Len(x) - 1)) ELSE x

Strip(x) == RStrip(LStrip(x))

ImportEntity(t, node) ==
    LET parent == IF Parent(t, node) # None THEN Parent(t, node) ELSE node
        raw == Strip(Text(t, node))
    IN [ name |-> raw,
         full_import_name |-> raw,
         line_number |-> LineOf(StartRow(t, parent)),
         alias |-> None ]

RECURSIVE ImportLoop(_, _)
ImportLoop(t, cs) ==
    IF cs = <<>> THEN <<>>
    ELSE (IF cs[1].label = "path" THEN <<ImportEntity(t, cs[1].node)>> ELSE <<>>)
         \o ImportLoop(t, Tail(cs))

FindImports(q, t) == Bind(Captures(q, "imports", t), LAMBDA cs : ImportLoop(t, cs))

\* No pattern exists for calls and variables: their captures are always empty.
FindCalls(q, t) == IF Captures(q, "calls", t) = <<>> THEN <<>> ELSE <<"unreachable">>
FindVariables(q, t) == IF Captures(q, "variables", t) = <<>> THEN <<>> ELSE <<"unreachable">>

EmptyRecord ==
    [ functions |-> <<>>, classes |-> <<>>, variables |-> <<>>, imports |-> <<>>,
      function_calls |-> <<>> ]

ParseRecord(q, t) ==
    [ functions |-> FindFunctions(q, t),
      classes |-> FindClasses(q, t),
      variables |-> FindVariables(q, t),
      imports |-> FindImports(q, t),
      function_calls |-> FindCalls(q, t) ]

--------------------------------------------------------------------------
(* The parser instance: construction, then parse calls on the file.       *)

RECURSIVE SeqsUpTo(_, _)
SeqsUpTo(S, n) ==
    IF n = 0 THEN {<<>>}
    ELSE SeqsUpTo(S, n - 1) \cup {Append(x, e) : x \in {y \in SeqsUpTo(S, n - 1) : Len(y) = n - 1}, e \in S}

Trees == SeqsUpTo(Shapes, MaxDecls)

ScanIdle ==
    /\ files = <<>> /\ idx = 0 /\ caps = <<>> /\ cpos = 0
    /\ imports_map = <<>> /\ failed = {} /\ spc = "idle"

InitParser ==
    /\ file \in {Tree(ds) : ds \in Trees}
    /\ pc = "new"
    /\ queries = [c \in Categories |-> FALSE]
    /\ disabled = {}
    /\ buckets = <<>>
    /\ result = EmptyRecord
    /\ ScanIdle

\* __init__: each patterned category compiles or raises QueryError (then None).
Construct ==
    /\ pc = "new"
    /\ \E bad \in SUBSET Patterned :
          /\ queries' = [c \in Categories |-> c \in Patterned \ bad]
          /\ disabled' = bad
    /\ pc' = "ready"
    /\ UNCHANGED <<file, buckets, result>>
    /\ UNCHANGED scanVars

\* parse: the file is read and parsed into a tree, and the finders run on its root.
Parse ==
    /\ pc \in {"ready", "returned"}
    /\ result' = ParseRecord(queries, file)
    /\ buckets' = FunctionBuckets(queries, file)
    /\ pc' = "returned"
    /\ UNCHANGED <<file, queries, disabled>>
    /\ UNCHANGED scanVars

NextParser == Construct \/ Parse

SpecParser == InitParser /\ [][NextParser]_vars

--------------------------------------------------------------------------
(* pre_scan_dart.                                                         *)

\* The paths handed to pre_scan_dart; lnk.dart is a link to a.dart.
ScanPaths == {"a.dart", "b.dart", "c.dart", "lnk.dart"}

\* str(file_path.resolve())
Resolve(path) ==
    CASE path = "a.dart" -> "/w/a.dart"
      [] path = "lnk.dart" -> "/w/a.dart"
      [] path = "b.dart" -> "/w/b.dart"
      [] path = "c.dart" -> "/w/c.dart"

\* What is on disk: the tree the engine builds from each file's text.
Disk ==
    [ full \in {"/w/a.dart", "/w/b.dart", "/w/c.dart"} |->
        CASE full = "/w/a.dart" -> Tree(<<"ClassMethod", "TopFn">>)
          [] full = "/w/b.dart" -> Tree(<<"TopFn", "Ctor">>)
          [] full = "/w/c.dart" -> Tree(<<"ExtAnon", "Mixin", "UnnamedFn">>) ]

DiskTree(path) == Disk[Resolve(path)]

PreScanPattern(t) ==
    UNION { CASE NodeType(t, n) \in {"class_definition", "enum_declaration",
                                     "extension_declaration"} \cup SignatureTypes ->
                   {Cap(c, "name") : c \in NameFieldIdentifiers(t, n)}
              [] NodeType(t, n) = "mixin_declaration" ->
                   {Cap(c, "name") : c \in IdentifierChildren(t, n)}
              [] OTHER -> {} : n \in AllNodes(t) }

\* The symbols of the "name" captures of one file, in the engine's order.
NameSymbols(path) ==
    Bind(SortCaptures(DiskTree(path), PreScanPattern(DiskTree(path))),
         LAMBDA cs : [j \in 1..Len(cs) |-> Text(DiskTree(path), cs[j].node)])

Contains(s, x) == \E i \in 1..Len(s) : s[i] = x

AddPathNoCheck(map, sym, fullpath) ==
    LET m1 == IF sym \in DOMAIN map THEN map ELSE (sym :> <<>>) @@ map
    IN [m1 EXCEPT ![sym] = Append(@, fullpath)]

\* imports_map.setdefault(sym, []); append fullpath unless it is already there.
AddPath(map, sym, fullpath) ==
    LET m1 == IF sym \in DOMAIN map THEN map ELSE (sym :> <<>>) @@ map
    IN IF Contains(m1[sym], fullpath) THEN m1
       ELSE [m1 EXCEPT ![sym] = Append(@, fullpath)]

AfterFailureAbort(i, n) == n + 1

\* The except clause sits inside the for loop: the loop goes on with the next file.
AfterFailure(i, n) == i + 1

EmptyMap == <<>>

InitScan ==
    /\ files \in SeqsUpTo(ScanPaths, MaxFiles)
    /\ idx = 0 /\ caps = <<>> /\ cpos = 0
    /\ imports_map = EmptyMap
    /\ failed = {}
    /\ spc = "start"
    /\ file = Tree(<<>>) /\ pc = "idle" /\ queries = [c \in Categories |-> FALSE]
    /\ disabled = {} /\ buckets = <<>> /\ result = EmptyRecord

\* Query(parser_wrapper.language, query_str) compiles.
ScanCompile ==
    /\ spc = "start"
    /\ spc' = "open" /\ idx' = 1
    /\ UNCHANGED <<files, caps, cpos, imports_map, failed>>
    /\ UNCHANGED parserVars

\* QueryError: a warning, and the empty map is returned.
ScanCompileFails ==
    /\ spc = "start"
    /\ spc' = "done"
    /\ UNCHANGED <<files, idx, caps, cpos, imports_map, failed>>
    /\ UNCHANGED parserVars

\* read_text, parse and captures succeed for the next file.
ScanOpen ==
    /\ spc = "open" /\ idx <= Len(files)
    /\ caps' = NameSymbols(files[idx])
    /\ cpos' = 1
    /\ spc' = "nodes"
    /\ UNCHANGED <<files, idx, imports_map, failed>>
    /\ UNCHANGED parserVars

\* read_text, parse or captures raises: the except clause logs a warning.
ScanOpenFails ==
    /\ spc = "open" /\ idx <= Len(files)
    /\ failed' = failed \cup {idx}
    /\ idx' = AfterFailure(idx, Len(files))
    /\ UNCHANGED <<files, caps, cpos, imports_map, spc>>
    /\ UNCHANGED parserVars

\* One pass of "for node in nodes".
ScanNode ==
    /\ spc = "nodes" /\ cpos <= Len(caps)
    /\ imports_map' = AddPath(imports_map, caps[cpos], Resolve(files[idx]))
    /\ cpos' = cpos + 1
    /\ UNCHANGED <<files, idx, caps, failed, spc>>
    /\ UNCHANGED parserVars

\* The captures of the file are exhausted: on to the next file.
ScanFileDone ==
    /\ spc = "nodes" /\ cpos > Len(caps)
    /\ idx' = idx + 1
    /\ spc' = "open"
    /\ UNCHANGED <<files, caps, cpos, imports_map, failed>>
    /\ UNCHANGED parserVars

\* The file list is exhausted: return imports_map.
ScanReturn ==
    /\ spc = "open" /\ idx > Len(files)
    /\ spc' = "done"
    /\ UNCHANGED <<files, idx, caps, cpos, imports_map, failed>>
    /\ UNCHANGED parserVars

NextScan ==
    \/ ScanCompile \/ ScanCompileFails \/ ScanOpen \/ ScanOpenFails
    \/ ScanNode \/ ScanFileDone \/ ScanReturn

SpecScan == InitScan /\ [][NextScan]_vars

--------------------------------------------------------------------------
(* Properties of _find_functions.                                         *)

Returned == pc = "returned"

SpanOf(t, n) == <<StartByte(t, n), EndByte(t, n)>>

FunctionCaptures == Captures(queries, "functions", file)

\* The spans of the signatures the captures of the functions query belong to.
SignatureSpans ==
    { SpanOf(file, FindSignature(file, FunctionCaptures[i].node)) :
        i \in {j \in 1..Len(FunctionCaptures) :
                  FindSignature(file, FunctionCaptures[j].node) # None} }

\* The captures (by position) that belong to the signature span sp.
CapturesOfSpan(sp) ==
    { i \in 1..Len(FunctionCaptures) :
        /\ FindSignature(file, FunctionCaptures[i].node) # None
        /\ SpanOf(file, FindSignature(file, FunctionCaptures[i].node)) = sp }

\* C1: _find_functions keeps one accumulator per distinct signature span
\* (start_byte, end_byte), however many captures, each a node object of its own,
\* belong to that span, and so emits at most one function entity per span.
C1_OneEntityPerSpan ==
    Returned =>
        /\ \A i, j \in 1..Len(buckets) :
              i # j => SpanOf(file, buckets[i].signature) # SpanOf(file, buckets[j].signature)
        /\ {SpanOf(file, buckets[i].signature) : i \in 1..Len(buckets)} = SignatureSpans
        /\ Len(result.functions) <= Cardinality(SignatureSpans)

\* Two declarations, one of them reached by three captures, and two entities.
C1_Witness ==
    /\ Returned
    /\ Cardinality(SignatureSpans) = 2
    /\ \E sp \in SignatureSpans : Cardinality(CapturesOfSpan(sp)) >= 3
    /\ Len(result.functions) = 2

\* The buckets from which neither a captured nor a derived name comes.
UnnamedSpans ==
    { SpanOf(file, buckets[i].signature) :
        i \in {j \in 1..Len(buckets) : FunctionName(file, buckets[j]) = <<>>} }

CapturesWithoutUnnamed ==
    SelectSeq(FunctionCaptures,
              LAMBDA c : \/ FindSignature(file, c.node) = None
                         \/ SpanOf(file, FindSignature(file, c.node)) \notin UnnamedSpans)

\* C2: a bucket with neither a captured nor a derived name yields no function entity
\* (no entity has an empty name), the call still returns, and the entities of the
\* other buckets are those obtained from the captures without the unnamed signature's.
C2_UnnamedSkipped ==
    Returned =>
        /\ \A k \in 1..Len(result.functions) : result.functions[k].name # <<>>
        /\ Len(result.functions) = Len(buckets) - Cardinality(UnnamedSpans)
        /\ result.functions = EntitiesOf(file, Buckets(file, CapturesWithoutUnnamed))

\* A file with an unnamed signature and a named one.
C2_Witness ==
    /\ Returned
    /\ UnnamedSpans # {}
    /\ Len(result.functions) >= 1

--------------------------------------------------------------------------
(* Properties of _find_classes and of construction.                       *)

ClassLikeTypes ==
    {"class_definition", "mixin_declaration", "enum_declaration", "extension_declaration"}

ClassLikeNodes == {n \in AllNodes(file) : NodeType(file, n) \in ClassLikeTypes}

\* The name the claim gives a class-like declaration.
ExpectedClassName(n) ==
    IF NameFieldIdentifiers(file, n) # {}
    THEN Text(file, CHOOSE c \in NameFieldIdentifiers(file, n) :
                      \A e \in NameFieldIdentifiers(file, n) : c[2] <= e[2])
    ELSE IF IdentifierChildren(file, n) # {}
    THEN Text(file, CHOOSE c \in IdentifierChildren(file, n) :
                      \A e \in IdentifierChildren(file, n) : c[2] <= e[2])
    ELSE <<"extension">>

EntitiesFor(n) ==
    { k \in 1..Len(result.classes) :
        /\ result.classes[k].name = ExpectedClassName(n)
        /\ result.classes[k].line_number = StartRow(file, n) + 1
        /\ result.classes[k].end_line = EndRow(file, n) + 1 }

\* C3: with the classes pattern compiled, every class-like declaration of the file
\* (class, mixin, enum, extension) yields exactly one class entity, named by its name
\* field, else its first identifier child, else "extension"; none is dropped.
C3_EveryClassLikeOnce ==
    (Returned /\ queries["classes"]) =>
        /\ \A n \in ClassLikeNodes : Cardinality(EntitiesFor(n)) = 1
        /\ Len(result.classes) = Cardinality(ClassLikeNodes)

AllCompiled == [c \in Categories |-> c \in Patterned]

\* C6: when the classes pattern failed to compile at construction, construction still
\* completes, every parse call returns an empty classes list and, the functions pattern
\* having compiled, the functions list of an instance whose patterns all compiled; no
\* category disabled at construction is ever enabled afterwards.
C6_ClassesDisabled ==
    /\ \A c \in disabled : pc # "new" /\ ~queries[c]
    /\ (Returned /\ "classes" \in disabled) =>
          /\ result.classes = <<>>
          /\ "functions" \notin disabled =>
                result.functions = FindFunctions(AllCompiled, file)

\* The classes pattern alone failed, and a file with a class and a method was parsed.
C6_Witness ==
    /\ Returned
    /\ disabled = {"classes"}
    /\ ClassLikeNodes # {}
    /\ Len(result.functions) >= 1

--------------------------------------------------------------------------
(* Properties of the lines, the container and the complexity.             *)

\* C7: every function entity and every class entity has line_number >= 1 and
\* end_line >= line_number.
C7_LinesOrdered ==
    Returned =>
        /\ \A k \in 1..Len(result.functions) :
              /\ result.functions[k].line_number >= 1
              /\ result.functions[k].end_line >= result.functions[k].line_number
        /\ \A k \in 1..Len(result.classes) :
              /\ result.classes[k].line_number >= 1
              /\ result.classes[k].end_line >= result.classes[k].line_number

\* The buckets that yield an entity, in order: the k-th yields the k-th entity.
NamedBuckets == SelectSeq(buckets, LAMBDA b : FunctionName(file, b) # <<>>)

\* A function on the first line whose span ends at a body, one whose span ends at its
\* container, and a class.
C7_Witness ==
    /\ Returned
    /\ Len(result.classes) >= 1
    /\ \E k \in 1..Len(result.functions) : result.functions[k].line_number = 1
    /\ \E k \in 1..Len(result.functions) :
          BodyNode(file, Container(file, NamedBuckets[k].signature),
                   NamedBuckets[k].signature) # None
    /\ \E k \in 1..Len(result.functions) :
          /\ BodyNode(file, Container(file, NamedBuckets[k].signature),
                      NamedBuckets[k].signature) = None
          /\ Container(file, NamedBuckets[k].signature) # NamedBuckets[k].signature

RECURSIVE AncestorsOrSelf(_, _)
AncestorsOrSelf(t, n) == IF n = None THEN {} ELSE {n} \cup AncestorsOrSelf(t, Parent(t, n))

Subtree(t, n) == IF n = None THEN {} ELSE {m \in AllNodes(t) : n \in AncestorsOrSelf(t, m)}

Decisions(S) == Cardinality({m \in S : NodeType(file, m) \in ComplexityNodes})

\* The function body the claims speak of: the next named sibling of c, else of sig.
BodyOf(c, sig) ==
    IF NextNamedSibling(file, c) # None
       /\ NodeType(file, NextNamedSibling(file, c)) = "function_body"
    THEN NextNamedSibling(file, c)
    ELSE IF NextNamedSibling(file, sig) # None
            /\ NodeType(file, NextNamedSibling(file, sig)) = "function_body"
    THEN NextNamedSibling(file, sig)
    ELSE None

ParentContainer(sig) ==
    IF Parent(file, sig) # None /\ NodeType(file, Parent(file, sig)) \in WrapperTypes
    THEN Parent(file, sig) ELSE sig

\* C8 as claimed: cyclomatic_complexity is 1 plus the number of decision nodes in the
\* signature subtree together with the body subtree, when a body is present.
C8_SignaturePlusBody ==
    Returned =>
        \A k \in 1..Len(result.functions) :
            LET sig == NamedBuckets[k].signature
                body == BodyOf(ParentContainer(sig), sig)
            IN result.functions[k].cyclomatic_complexity
                  = 1 + Decisions(Subtree(file, sig) \cup Subtree(file, body))

\* C8 amended: cyclomatic_complexity is 1 plus the number of decision nodes in the
\* subtree of the body when a body is found, else in the subtree of the container
\* (the signature's parent if it is a wrapper, else the signature); it is >= 1.
C8_EndNodeSubtree ==
    Returned =>
        \A k \in 1..Len(result.functions) :
            LET sig == NamedBuckets[k].signature
                body == BodyOf(ParentContainer(sig), sig)
                counted == IF body # None THEN body ELSE ParentContainer(sig)
            IN /\ result.functions[k].cyclomatic_complexity
                     = 1 + Decisions(Subtree(file, counted))
               /\ result.functions[k].cyclomatic_complexity >= 1

\* A function with decision nodes in its body, and one with none anywhere.
C8_Witness ==
    /\ Returned
    /\ \E k \in 1..Len(result.functions) : result.functions[k].cyclomatic_complexity >= 3
    /\ \E k \in 1..Len(result.functions) :
          /\ result.functions[k].cyclomatic_complexity = 1
          /\ Decisions(Subtree(file, NamedBuckets[k].signature)) = 0

\* The nearest ancestor of sig, at any depth, whose type is a wrapper; else sig.
RECURSIVE NearestWrapperFrom(_, _)
NearestWrapperFrom(n, sig) ==
    IF n = None THEN sig
    ELSE IF NodeType(file, n) \in WrapperTypes THEN n
    ELSE NearestWrapperFrom(Parent(file, n), sig)

NearestWrapper(sig) == NearestWrapperFrom(Parent(file, sig), sig)

\* C9 as claimed: the container is the nearest wrapper ancestor at any depth (the
\* signature when there is none); line_number is its start line and end_line the end
\* line of the body found next to the container or to the signature, else its end line.
C9_NearestAncestor ==
    Returned =>
        \A k \in 1..Len(result.functions) :
            LET sig == NamedBuckets[k].signature
                c == NearestWrapper(sig)
                body == BodyOf(c, sig)
            IN /\ result.functions[k].line_number = StartRow(file, c) + 1
               /\ result.functions[k].end_line
                     = (IF body # None THEN EndRow(file, body) ELSE EndRow(file, c)) + 1

\* C9 amended: the container is the signature's immediate parent when its type is in
\* the wrapper allow-list, else the signature itself; line_number is the container's
\* start line, and end_line is the end line of the function body found as the next named
\* sibling of the container or of the signature (in that order), else the container's.
C9_ParentContainer ==
    Returned =>
        \A k \in 1..Len(result.functions) :
            LET sig == NamedBuckets[k].signature
                c == ParentContainer(sig)
                body == BodyOf(c, sig)
            IN /\ result.functions[k].line_number = StartRow(file, c) + 1
               /\ result.functions[k].end_line
                     = (IF body # None THEN EndRow(file, body) ELSE EndRow(file, c)) + 1

\* A signature under a wrapper parent, and one whose only wrapper is a remote ancestor.
C9_Witness ==
    /\ Returned
    /\ \E k \in 1..Len(result.functions) :
          ParentContainer(NamedBuckets[k].signature) # NamedBuckets[k].signature
    /\ \E k \in 1..Len(result.functions) :
          /\ ParentContainer(NamedBuckets[k].signature) = NamedBuckets[k].signature
          /\ NearestWrapper(NamedBuckets[k].signature) # NamedBuckets[k].signature

--------------------------------------------------------------------------
(* Properties of _find_imports.                                           *)

DirectiveTypes == {"import_or_export", "part_directive", "part_of_directive"}

Directive(n) ==
    CHOOSE a \in AncestorsOrSelf(file, n) : NodeType(file, a) \in DirectiveTypes

\* The literal without its surrounding quote characters.
Unquoted(x) ==
    IF Len(x) >= 2 /\ x[1] \in QuoteChars /\ x[Len(x)] = x[1]
    THEN SubSeq(x, 2, Len(x) - 1) ELSE x

ImportCaptures == Captures(queries, "imports", file)

\* C10: every string literal captured as path yields exactly one import entity, whose
\* line_number is the start line of the enclosing import/export/part directive, whose
\* name and full_import_name are the literal without its quotes, and whose alias is null.
C10_DirectiveLine ==
    Returned =>
        /\ Len(result.imports) = Len(ImportCaptures)
        /\ \A k \in 1..Len(result.imports) :
              /\ result.imports[k].line_number
                    = StartRow(file, Directive(ImportCaptures[k].node)) + 1
              /\ result.imports[k].name = Unquoted(Text(file, ImportCaptures[k].node))
              /\ result.imports[k].full_import_name = result.imports[k].name
              /\ result.imports[k].alias = None

--------------------------------------------------------------------------
(* Properties of pre_scan_dart.                                           *)

RECURSIVE Dedup(_)
Dedup(x) ==
    IF x = <<>> THEN <<>>
    ELSE LET front == Dedup(SubSeq(x, 1, Len(x) - 1))
         IN IF Contains(front, x[Len(x)]) THEN front ELSE Append(front, x[Len(x)])

NoDuplicates(x) == \A i, j \in 1..Len(x) : i # j => x[i] # x[j]

\* File k of the list has, so far, declared sym.
Declared(k, sym) ==
    \/ k < idx /\ k \notin failed /\ Contains(NameSymbols(files[k]), sym)
    \/ k = idx /\ spc = "nodes" /\ Contains(SubSeq(caps, 1, cpos - 1), sym)

\* The paths of the files that have declared sym, in list order.
DeclaringPaths(sym) ==
    LET ks == SelectSeq([k \in 1..Len(files) |-> k], LAMBDA k : Declared(k, sym))
    IN [j \in 1..Len(ks) |-> Resolve(files[ks[j]])]

RECURSIVE ScanFileInto(_, _, _)
ScanFileInto(map, syms, fullpath) ==
    IF syms = <<>> THEN map
    ELSE Bind(AddPath(map, syms[1], fullpath),
              LAMBDA m : ScanFileInto(m, Tail(syms), fullpath))

\* The index a pass over fs builds when no file fails.
RECURSIVE PreScanOf(_)
PreScanOf(fs) ==
    IF fs = <<>> THEN EmptyMap
    ELSE Bind(PreScanOf(SubSeq(fs, 1, Len(fs) - 1)), LAMBDA m :
            Bind(NameSymbols(fs[Len(fs)]), LAMBDA syms :
                ScanFileInto(m, syms, Resolve(fs[Len(fs)]))))

\* C4: after every step of the scan, whatever the file list repeats, each symbol's list
\* holds no path twice and holds the paths of the files that declared the symbol in the
\* order of their first declaration; a pass over the list taken twice builds the index
\* of one pass.
C4_Idempotent ==
    /\ \A sym \in DOMAIN imports_map :
          /\ NoDuplicates(imports_map[sym])
          /\ imports_map[sym] = Dedup(DeclaringPaths(sym))
    /\ (spc = "done" /\ idx > 0 /\ failed = {}) =>
          /\ imports_map = PreScanOf(files \o files)
          /\ \A h \in 1..Len(files) :
                (Len(files) = 2 * h /\ SubSeq(files, 1, h) = SubSeq(files, h + 1, 2 * h))
                    => imports_map = PreScanOf(SubSeq(files, 1, h))

\* A list that names the same file twice (once through a link), of files that declare
\* a common symbol, one of them twice over; scanned to the end.
C4_Witness ==
    /\ spc = "done" /\ idx > 0 /\ failed = {}
    /\ files = <<"lnk.dart", "b.dart", "a.dart">>
    /\ {<<"f">>, <<"T">>} \subseteq DOMAIN imports_map
    /\ imports_map[<<"f">>] = <<"/w/a.dart", "/w/b.dart">>
    /\ imports_map[<<"T">>] = <<"/w/b.dart">>

\* The list without the files at the positions in gone.
Without(fs, gone) ==
    LET ks == SelectSeq([k \in 1..Len(fs) |-> k], LAMBDA k : k \notin gone)
    IN [j \in 1..Len(ks) |-> fs[ks[j]]]

\* C5: when processing a file fails, the file adds nothing, what earlier files added
\* stays, later files are still processed and the call returns: between files and at
\* the end the index is that of a pass over the files so far without the failing ones.
C5_FailureIsolated ==
    /\ (spc = "open" /\ idx >= 1) =>
          imports_map = PreScanOf(Without(SubSeq(files, 1, idx - 1), failed))
    /\ (spc = "done" /\ idx >= 1) =>
          /\ idx = Len(files) + 1
          /\ imports_map = PreScanOf(Without(files, failed))

\* The middle file of three failed; the first and the last are in the index.
C5_Witness ==
    /\ spc = "done" /\ idx > 0
    /\ files = <<"a.dart", "b.dart", "c.dart">>
    /\ failed = {2}
    /\ <<"C">> \in DOMAIN imports_map
    /\ <<"M">> \in DOMAIN imports_map
    /\ <<"T">> \notin DOMAIN imports_map

--------------------------------------------------------------------------
(* Constructor names and parameter names.                                 *)

\* The number of leading children of cs that are identifiers or '.' tokens.
RECURSIVE RunLength(_, _)
RunLength(t, cs) ==
    IF cs = <<>> \/ NodeType(t, cs[1]) \notin {"identifier", "."} THEN 0
    ELSE 1 + RunLength(t, Tail(cs))

\* sig is a constructor signature whose leading run is followed by a parameter list.
RunThenParams(sig) ==
    /\ NodeType(file, sig) = "constructor_signature"
    /\ RunLength(file, Children(file, sig)) >= 1
    /\ RunLength(file, Children(file, sig)) < Len(Children(file, sig))
    /\ NodeType(file, Children(file, sig)[RunLength(file, Children(file, sig)) + 1])
          = "formal_parameter_list"

ParamListOf(sig) == Children(file, sig)[RunLength(file, Children(file, sig)) + 1]

RunText(sig) ==
    Join([j \in 1..RunLength(file, Children(file, sig)) |->
            Text(file, Children(file, sig)[j])])

\* The children of the parameter list of either parameter shape that have a name.
NamedParameters(sig) ==
    SelectSeq(Children(file, ParamListOf(sig)),
              LAMBDA c : /\ NodeType(file, c) \in {"normal_formal_parameter",
                                                   "simple_formal_parameter"}
                         /\ ChildByFieldName(file, c, "name") # None)

ClaimedArgs(sig) ==
    [j \in 1..Len(NamedParameters(sig)) |->
        Text(file, ChildByFieldName(file, NamedParameters(sig)[j], "name"))]

\* C11: for a constructor signature whose leading children are identifier and '.'
\* tokens followed by a parameter list, the entity's name is the concatenation of
\* that leading run, and args is the names of the parameter list's children of
\* either parameter shape (bare or typed/normal), in source order, leaving out the
\* parameters without a name field.
C11_CtorNameAndArgs ==
    Returned =>
        \A k \in 1..Len(result.functions) :
            RunThenParams(NamedBuckets[k].signature) =>
                /\ result.functions[k].name = RunText(NamedBuckets[k].signature)
                /\ result.functions[k].args = ClaimedArgs(NamedBuckets[k].signature)

====
